---- MODULE Spec2Model ----
(***************************************************************************)
(* The WPlace line-tile downloader of src/app.js (lines 496-782): the 404  *)
(* cache (cache404 / needsSave, load and save), the Fetcher                *)
(* (downloadWplaceTile), the driver loop (downloadWplaceLineTiles) and the *)
(* signal handler (setupGracefulShutdown).                                 *)
(*                                                                         *)
(* JavaScript runs each synchronous stretch of code to completion; other   *)
(* callbacks (a signal handler, the completion of a pending write) run     *)
(* only while the main async function is suspended at an await.  mpc is    *)
(* the position of the main function; the positions of AwaitPcs are the    *)
(* awaits, the others are synchronous positions where nothing can          *)
(* interleave.  A file write takes effect atomically when it completes; a  *)
(* write that is still pending when the process exits has no effect.       *)
(***************************************************************************)
EXTENDS Integers, Sequences, FiniteSets, TLC

\* ---- bounds of the model ----
MaxWork == 2        \* longest list of unique tiles the extraction yields
MaxSignals == 2     \* signals delivered to one run
MaxRuns == 2        \* consecutive runs of the script over the same disk
MaxFileLen == 1     \* longest array in the cache file before the first run
MaxFlushes == 2     \* direct calls of saveCache404 when the cache is driven call by call
MaxLong == 22       \* tiles of the long worklist, beyond one flush period
Max404 == 2         \* 404 answers while the long worklist is processed
MaxCounted == 3     \* results counted when the Fetcher is driven call by call
MaxSpan == 20       \* longest sampled segment, in units of 1/Scale degree
MaxFeatures == 2    \* features of the line feed

\* ---- program constants ----
DELAY_MS == 500
DELAY_RATE_LIMIT_MS == 5000
RETRY_WAIT_MS == 1000
RateLimitRetries == 3
TransientRetries == 2
FlushEvery == 20
WPLACE_ZOOM == 11

Tiles == {<<2, 2>>, <<5, 5>>}
NoTile == <<0, 0>>

\* `${x}/${y}`
TileKey(t) == ToString(t[1]) \o "/" \o ToString(t[2])

Keys == {TileKey(t) : t \in Tiles}

VARIABLES
  cacheFile,    \* wplace_404_cache.json: [st: absent | corrupt | ok, data: array of strings]
  tileFile,     \* public/wplace_tiles/<x>/<y>.png per tile: absent | partial | complete
  cache404,     \* the Set, in insertion order
  needsSave,    \* the dirty flag
  mpc,          \* position of the main async function
  uniqueTiles,  \* the deduplicated tiles of extractTilesFromGeoJSON, before the filter
  tiles,        \* the worklist of downloadWplaceLineTiles
  i,            \* loop index (0-based, as in the source)
  tally,        \* [downloaded, skipped, missing, failed]
  cur,          \* (x, y) of the Fetcher call in progress
  retryCount,   \* its retryCount argument
  err,          \* message of the error caught at line 709
  result,       \* value returned by the last Fetcher call
  flushCont,    \* where the main function resumes after its pending cache write
  mainSnap,     \* the array the main function's pending cache write was given
  handlers,     \* arrays given to the pending cache writes of signal handlers
  exitCode,     \* -1 while the process lives
  run,          \* number of the current run
  \* history (not program state)
  resps,        \* responses received in the current top-level Fetcher call
  reqs,         \* requests issued in the current top-level Fetcher call
  waits,        \* completed waits (ms) of the current top-level Fetcher call
  loaded,       \* keys loaded from the cache file at the start of this run
  got404,       \* tiles that received HTTP 404 in this run
  flushCalls,   \* invocations of saveCache404 in this run
  sigCalls,     \* of which by a signal handler
  sigCount,     \* signals delivered in this run
  writes,       \* cache-file writes started in this run
  writesOk,     \* cache-file writes completed successfully in this run
  flushed,      \* keys written to the cache file by a completed write of this run
  prevFlushed,  \* keys added and flushed by the previous run
  exitPath,     \* none | empty | complete | fatal | signal
  summary       \* the final tally line has been printed

VARIABLES
  coord,        \* [lon, lat] given to lonLatToWplaceTile
  tc,           \* the tile coordinate the tile grid computed for it
  tile,         \* what lonLatToWplaceTile returned
  seg,          \* [startCoord, endCoord] given to getTilesForLineSegment
  segTiles,     \* the array it returned
  segPoints,    \* history: the points its loop interpolated, in order
  features,     \* geojson.features given to extractTilesFromGeoJSON
  gpc           \* picked | sampled

disk == <<cacheFile, tileFile>>
memv == <<cache404, needsSave>>
drv == <<uniqueTiles, tiles, i, tally>>
callv == <<cur, retryCount, err, result>>
flushv == <<flushCont, mainSnap>>
callh == <<resps, reqs, waits>>
runh == <<loaded, got404, sigCalls, sigCount, flushed, prevFlushed, summary>>
endv == <<exitCode, exitPath, run, handlers>>
geo == <<coord, tc, tile, seg, segTiles, segPoints, features, gpc>>
vars == <<disk, memv, mpc, drv, callv, flushv, callh, runh, endv, flushCalls, writes, writesOk,
          geo>>

\* ---- helpers ----
Range(s) == {s[k] : k \in DOMAIN s}

RECURSIVE Dedup(_)
\* new Set(array): first occurrences, in order
Dedup(s) ==
  IF s = <<>> THEN <<>>
  ELSE LET r == Dedup(SubSeq(s, 1, Len(s) - 1))
       IN IF s[Len(s)] \in Range(r) THEN r ELSE Append(r, s[Len(s)])

\* cache404.has(key)
Has(key) == key \in Range(cache404)

\* an add that rebuilds the set from the new key
SetAdd_Replace(c, key) == <<key>>

\* cache404.add(key)
SetAdd(c, key) == IF key \in Range(c) THEN c ELSE Append(c, key)

\* existsSync(outputPath)
Exists(t) == tileFile[t] # "absent"

SeqsUpTo(S, n) == UNION {[1..k -> S] : k \in 0..n}
DistinctSeqs(S, n) == {s \in SeqsUpTo(S, n) : Cardinality(Range(s)) = Len(s)}

Remove(s, k) == SubSeq(s, 1, k - 1) \o SubSeq(s, k + 1, Len(s))

NoResult == [success |-> FALSE, reason |-> "none", cached |-> FALSE]
ZeroTally == [downloaded |-> 0, skipped |-> 0, missing |-> 0, failed |-> 0]

\* positions at which the main function is suspended at an await
AwaitPcs == {"load", "extract", "fetching", "saving", "wait_rl", "wait_retry",
             "delay", "flush", "maindone"}

\* ---- coordinates and tiles ----
\* A coordinate is <<lon, lat>> in units of 1/Scale degree.  The arithmetic of
\* the interpolation is exact: a sampled point is a pair of numerators over a
\* common denominator.

Abs(a) == IF a < 0 THEN -a ELSE a
Max2(a, b) == IF a > b THEN a ELSE b
CeilDiv(a, b) == (a + b - 1) \div b

RECURSIVE Gcd(_, _)
Gcd(a, b) == IF b = 0 THEN a ELSE Gcd(b, a % b)

\* units per degree
Scale == 2000
\* the extent of the tile grid: 180 degrees of longitude each way, and the
\* latitude where the square Web Mercator world ends, 85.051 degrees
HalfWorld == 180 * Scale
LatEdge == 170102

\* (1 << z)
Shl1(z) == 2 ^ z

\* tiles per unit of longitude and of latitude at the zoom, as reduced fractions
LonNum == Shl1(WPLACE_ZOOM) \div Gcd(Shl1(WPLACE_ZOOM), 2 * HalfWorld)
LonDen == (2 * HalfWorld) \div Gcd(Shl1(WPLACE_ZOOM), 2 * HalfWorld)
LatNum == Shl1(WPLACE_ZOOM) \div Gcd(Shl1(WPLACE_ZOOM), 2 * LatEdge)
LatDen == (2 * LatEdge) \div Gcd(Shl1(WPLACE_ZOOM), 2 * LatEdge)

\* null
Null == [z |-> -1, x |-> -1, y |-> -1]

\* the point [lon, lat] as numerators over the denominator 1
AsPoint(c) == [lon |-> c[1], lat |-> c[2], den |-> 1]

\* fromLonLat, then tileGrid.getTileCoordForCoordAndZ(..., WPLACE_ZOOM): the
\* column counts from the west edge, the row from the north edge; the
\* latitude axis is taken as linear between the two edges
GridCoord(p) ==
  [z |-> WPLACE_ZOOM,
   x |-> ((p.lon + HalfWorld * p.den) * LonNum) \div (LonDen * p.den),
   y |-> ((LatEdge * p.den - p.lat) * LatNum) \div (LatDen * p.den)]

\* a check that forgets the upper limit
CheckTile_NoMax(c) ==
  IF c # Null /\ c.x >= 0 /\ c.y >= 0 THEN [x |-> c.x, y |-> c.y, z |-> c.z] ELSE Null

\* lines 568-575: the tile when its indices are within 0 .. (1 << z) - 1
CheckTile(c) ==
  IF c # Null
    THEN LET max == Shl1(c.z) - 1
         IN IF c.x >= 0 /\ c.x <= max /\ c.y >= 0 /\ c.y <= max
              THEN [x |-> c.x, y |-> c.y, z |-> c.z]
              ELSE Null
    ELSE Null

\* lonLatToWplaceTile(lon, lat)
lonLatToWplaceTile(p) == CheckTile(GridCoord(p))

DigitChars == <<"0", "1", "2", "3", "4", "5", "6", "7", "8", "9">>

RECURSIVE Digits(_)
\* `${n}` of an integer that is not negative
Digits(n) ==
  IF n < 10 THEN <<DigitChars[n + 1]>>
  ELSE Append(Digits(n \div 10), DigitChars[(n % 10) + 1])

RECURSIVE Number(_)
\* Number(s) of a string of decimal digits
Number(s) ==
  IF s = <<>> THEN 0
  ELSE Number(SubSeq(s, 1, Len(s) - 1)) * 10
         + ((CHOOSE d \in 1..10 : DigitChars[d] = s[Len(s)]) - 1)

\* `${x},${y}`
TileStr(x, y) == Digits(x) \o <<",">> \o Digits(y)

\* s.split(',').map(Number), made a tile of the zoom
ParseTile(s) ==
  LET c == CHOOSE k \in DOMAIN s : s[k] = ","
  IN [x |-> Number(SubSeq(s, 1, c - 1)),
      y |-> Number(SubSeq(s, c + 1, Len(s))),
      z |-> WPLACE_ZOOM]

\* only the tile itself
Offsets_Self == <<0>>

\* [-1, 0, 1]
Offsets == <<-1, 0, 1>>

\* the pairs (dx, dy) in the order of the two nested loops
OffsetPairs ==
  [k \in 1..(Len(Offsets) * Len(Offsets)) |->
     <<Offsets[((k - 1) \div Len(Offsets)) + 1], Offsets[((k - 1) % Len(Offsets)) + 1]>>]

RECURSIVE AddAround(_, _, _)
\* lines 597-607: the set after the first k pairs (dx, dy) were tried around
\* the tile, the keys of the tiles in range added
AddAround(acc, t, k) ==
  IF k = 0 THEN acc
  ELSE LET before == AddAround(acc, t, k - 1)
           x == t.x + OffsetPairs[k][1]
           y == t.y + OffsetPairs[k][2]
           max == Shl1(WPLACE_ZOOM) - 1
       IN IF x >= 0 /\ x <= max /\ y >= 0 /\ y <= max
            THEN SetAdd(before, TileStr(x, y))
            ELSE before

\* line 588
NumPoints(s, e) ==
  LET maxDelta == Max2(Abs(e[1] - s[1]), Abs(e[2] - s[2]))
  IN Max2(2, CeilDiv(maxDelta * 1000, Scale))

\* lines 591-593: startCoord + (k / n) * (endCoord - startCoord)
SamplePoint(s, e, n, k) ==
  [lon |-> s[1] * n + k * (e[1] - s[1]),
   lat |-> s[2] * n + k * (e[2] - s[2]),
   den |-> n]

\* a loop that stops before the end point
LastIndex_Open(n) == n - 1

\* the last value of the loop variable of line 590
LastIndex(n) == n

\* tiles.add(key) for each key of a sequence of distinct keys, in order
SetAddAll(c, ks) == c \o SelectSeq(ks, LAMBDA q : q \notin Range(c))

RECURSIVE SampleLoop(_, _, _, _)
\* lines 590-609: the set after the iterations 0 .. k of the loop
SampleLoop(s, e, n, k) ==
  IF k < 0 THEN <<>>
  ELSE LET t == lonLatToWplaceTile(SamplePoint(s, e, n, k))
       IN SetAddAll(SampleLoop(s, e, n, k - 1),
                    IF t # Null THEN AddAround(<<>>, t, Len(OffsetPairs)) ELSE <<>>)

\* lines 590-593: the points of the iterations of the loop, in order
SamplePoints(s, e) ==
  LET n == NumPoints(s, e)
  IN [k \in 1..(LastIndex(n) + 1) |-> SamplePoint(s, e, n, k - 1)]

\* getTilesForLineSegment(startCoord, endCoord)
getTilesForLineSegment(s, e) ==
  LET n == NumPoints(s, e)
      keys == SampleLoop(s, e, n, LastIndex(n))
  IN [k \in 1..Len(keys) |-> ParseTile(keys[k])]

\* coordinates at the origin, on both sides of a tile edge and around two
\* corners of the world
Coords ==
  {<<0, 0>>, <<20, 0>>, <<-1, 1>>, <<3, -3>>, <<0, 12>>,
   <<-HalfWorld, LatEdge>>, <<-HalfWorld + 10, LatEdge - 2>>,
   <<-HalfWorld - 2, LatEdge>>, <<-HalfWorld, LatEdge + 2>>,
   <<HalfWorld - 1, -LatEdge + 1>>, <<HalfWorld, -LatEdge + 1>>,
   <<HalfWorld - 10, -LatEdge>>}

\* the segments between them that are at most MaxSpan units long
Segments ==
  {sg \in Coords \X Coords :
     Max2(Abs(sg[2][1] - sg[1][1]), Abs(sg[2][2] - sg[1][2])) <= MaxSpan}

\* tile coordinates a tile grid may compute, within the grid and beyond it
GridCoords ==
  {Null} \cup {[z |-> WPLACE_ZOOM, x |-> a, y |-> b] :
                 a, b \in {-1, 0, 1024, Shl1(WPLACE_ZOOM) - 1, Shl1(WPLACE_ZOOM)}}

\* no coordinate mapped, no segment sampled
GeoIdle ==
  /\ coord = <<0, 0>> /\ tc = Null /\ tile = Null
  /\ seg = <<<<0, 0>>, <<0, 0>>>> /\ segTiles = <<>> /\ segPoints = <<>>
  /\ features = <<>> /\ gpc = "picked"

CacheFileInits ==
  {[st |-> "absent", data |-> <<>>], [st |-> "corrupt", data |-> <<>>]}
    \cup {[st |-> "ok", data |-> d] : d \in SeqsUpTo(Keys, MaxFileLen)}

\* state of a process that has just started
FreshMemory ==
  /\ cache404 = <<>> /\ needsSave = FALSE
  /\ uniqueTiles = <<>> /\ tiles = <<>> /\ i = 0 /\ tally = ZeroTally
  /\ cur = NoTile /\ retryCount = 0 /\ err = "" /\ result = NoResult
  /\ flushCont = "" /\ mainSnap = <<>> /\ handlers = <<>>
  /\ exitCode = -1 /\ exitPath = "none" /\ summary = FALSE
  /\ resps = <<>> /\ reqs = 0 /\ waits = <<>>
  /\ loaded = {} /\ got404 = {} /\ flushCalls = 0 /\ sigCalls = 0
  /\ sigCount = 0 /\ writes = 0 /\ writesOk = 0 /\ flushed = {}

Init ==
  /\ cacheFile \in CacheFileInits
  /\ tileFile \in [Tiles -> {"absent", "complete"}]
  /\ FreshMemory
  /\ mpc = "load"
  /\ run = 1
  /\ prevFlushed = {}
  /\ GeoIdle

\* ---- the 404 cache ----

\* a load that rethrows what the read throws
LoadCache_Rethrow ==
  /\ mpc = "load"
  /\ IF cacheFile.st = "ok"
       THEN /\ cache404' = Dedup(cacheFile.data)
            /\ loaded' = Range(cacheFile.data)
       ELSE UNCHANGED <<cache404, loaded>>
  /\ mpc' = IF cacheFile.st = "corrupt" THEN "catch" ELSE "extract"
  /\ UNCHANGED <<geo, disk, needsSave, drv, callv, flushv, callh, endv, flushCalls, writes, writesOk,
                 got404, sigCalls, sigCount, flushed, prevFlushed, summary>>

\* loadCache404
LoadCache ==
  /\ mpc = "load"
  /\ IF cacheFile.st = "ok"
       THEN /\ cache404' = Dedup(cacheFile.data)
            /\ loaded' = Range(cacheFile.data)
       ELSE UNCHANGED <<cache404, loaded>>     \* no file, or the read throws and is caught
  /\ mpc' = "extract"
  /\ UNCHANGED <<geo, disk, needsSave, drv, callv, flushv, callh, endv, flushCalls, writes, writesOk,
                 got404, sigCalls, sigCount, flushed, prevFlushed, summary>>

\* a saveCache404 that writes whether or not the flag is set
SaveStart_Always(cont) ==
  /\ flushCalls' = flushCalls + 1
  /\ mpc' = "flush"
  /\ flushCont' = cont
  /\ mainSnap' = cache404
  /\ writes' = writes + 1

\* saveCache404 as called by the main function, up to its await; cont is the
\* position after the call
SaveStart(cont) ==
  /\ flushCalls' = flushCalls + 1
  /\ IF needsSave
       THEN /\ mpc' = "flush"
            /\ flushCont' = cont
            /\ mainSnap' = cache404
            /\ writes' = writes + 1
       ELSE /\ mpc' = cont
            /\ UNCHANGED <<flushCont, mainSnap, writes>>

\* a write that appends to the file instead of replacing it
FlushWriteOk_Append ==
  /\ mpc = "flush"
  /\ cacheFile' = [st |-> "ok", data |-> cacheFile.data \o mainSnap]
  /\ needsSave' = FALSE
  /\ flushed' = flushed \cup Range(mainSnap)
  /\ writesOk' = writesOk + 1
  /\ mpc' = flushCont
  /\ UNCHANGED <<geo, tileFile, cache404, drv, callv, flushv, callh, endv, flushCalls, writes,
                 loaded, got404, sigCalls, sigCount, prevFlushed, summary>>

\* the main function's Bun.write of the cache file resolves
FlushWriteOk ==
  /\ mpc = "flush"
  /\ cacheFile' = [st |-> "ok", data |-> mainSnap]
  /\ needsSave' = FALSE
  /\ flushed' = flushed \cup Range(mainSnap)
  /\ writesOk' = writesOk + 1
  /\ mpc' = flushCont
  /\ UNCHANGED <<geo, tileFile, cache404, drv, callv, flushv, callh, endv, flushCalls, writes,
                 loaded, got404, sigCalls, sigCount, prevFlushed, summary>>

\* ... or rejects: caught and logged
FlushWriteFail ==
  /\ mpc = "flush"
  /\ mpc' = flushCont
  /\ UNCHANGED <<geo, disk, memv, drv, callv, flushv, callh, runh, endv, flushCalls, writes, writesOk>>

\* ---- the Fetcher: downloadWplaceTile ----

Cached404 == [success |-> FALSE, reason |-> "cached_404", cached |-> TRUE]
AlreadyExists == [success |-> TRUE, reason |-> "already_exists", cached |-> TRUE]
Downloaded == [success |-> TRUE, reason |-> "", cached |-> FALSE]
Failed(msg) == [success |-> FALSE, reason |-> msg, cached |-> FALSE]

\* line 696: retryCount < 3
RateLimited_Two(rc) == rc < RateLimitRetries - 1

RateLimited(rc) == rc < RateLimitRetries

\* line 710: retryCount < 2
ShouldRetry_Once(rc) == rc < TransientRetries - 1

ShouldRetry(rc) == rc < TransientRetries

\* entry of one (possibly recursive) invocation: the two checks, then fetch(url)
FetchCached ==
  /\ mpc = "call"
  /\ Has(TileKey(cur))
  /\ result' = Cached404
  /\ mpc' = "ret"
  /\ UNCHANGED <<geo, disk, memv, drv, cur, retryCount, err, flushv, callh, runh, endv,
                 flushCalls, writes, writesOk>>

FetchExists ==
  /\ mpc = "call"
  /\ ~Has(TileKey(cur))
  /\ Exists(cur)
  /\ result' = AlreadyExists
  /\ mpc' = "ret"
  /\ UNCHANGED <<geo, disk, memv, drv, cur, retryCount, err, flushv, callh, runh, endv,
                 flushCalls, writes, writesOk>>

FetchRequest ==
  /\ mpc = "call"
  /\ ~Has(TileKey(cur))
  /\ ~Exists(cur)
  /\ reqs' = reqs + 1
  /\ mpc' = "fetching"
  /\ UNCHANGED <<geo, disk, memv, drv, callv, flushv, resps, waits, runh, endv,
                 flushCalls, writes, writesOk>>

\* a 404 that is reported but not recorded in the cache
Resp404_NoAdd ==
  /\ mpc = "fetching"
  /\ resps' = Append(resps, "404")
  /\ needsSave' = TRUE
  /\ got404' = got404 \cup {cur}
  /\ result' = Failed("404")
  /\ mpc' = "ret"
  /\ UNCHANGED <<geo, disk, cache404, drv, cur, retryCount, err, flushv, reqs, waits, endv,
                 flushCalls, writes, writesOk, loaded, sigCalls, sigCount, flushed,
                 prevFlushed, summary>>

\* response.status === 404
Resp404 ==
  /\ mpc = "fetching"
  /\ resps' = Append(resps, "404")
  /\ cache404' = SetAdd(cache404, TileKey(cur))
  /\ needsSave' = TRUE
  /\ got404' = got404 \cup {cur}
  /\ result' = Failed("404")
  /\ mpc' = "ret"
  /\ UNCHANGED <<geo, disk, drv, cur, retryCount, err, flushv, reqs, waits, endv,
                 flushCalls, writes, writesOk, loaded, sigCalls, sigCount, flushed, prevFlushed,
                 summary>>

\* response.status === 429
Resp429 ==
  /\ mpc = "fetching"
  /\ resps' = Append(resps, "429")
  /\ IF RateLimited(retryCount)
       THEN /\ mpc' = "wait_rl"
            /\ UNCHANGED err
       ELSE /\ mpc' = "caught"              \* falls through to the throw of line 701
            /\ err' = "HTTP 429"
  /\ UNCHANGED <<geo, disk, memv, drv, cur, retryCount, result, flushv, reqs, waits, runh,
                 endv, flushCalls, writes, writesOk>>

\* any other status that is not ok
RespHttpError ==
  /\ mpc = "fetching"
  /\ resps' = Append(resps, "500")
  /\ err' = "HTTP 500"
  /\ mpc' = "caught"
  /\ UNCHANGED <<geo, disk, memv, drv, cur, retryCount, result, flushv, reqs, waits, runh,
                 endv, flushCalls, writes, writesOk>>

\* fetch() rejects
RespTransportFail ==
  /\ mpc = "fetching"
  /\ resps' = Append(resps, "neterr")
  /\ err' = "fetch failed"
  /\ mpc' = "caught"
  /\ UNCHANGED <<geo, disk, memv, drv, cur, retryCount, result, flushv, reqs, waits, runh,
                 endv, flushCalls, writes, writesOk>>

\* response.ok: blob(), mkdir, Bun.write follow
RespOk ==
  /\ mpc = "fetching"
  /\ resps' = Append(resps, "200")
  /\ mpc' = "saving"
  /\ UNCHANGED <<geo, disk, memv, drv, callv, flushv, reqs, waits, runh, endv,
                 flushCalls, writes, writesOk>>

SaveTileOk ==
  /\ mpc = "saving"
  /\ tileFile' = [tileFile EXCEPT ![cur] = "complete"]
  /\ result' = Downloaded
  /\ mpc' = "ret"
  /\ UNCHANGED <<geo, cacheFile, memv, drv, cur, retryCount, err, flushv, callh, runh, endv,
                 flushCalls, writes, writesOk>>

\* blob(), mkdir or Bun.write rejects; the file may have been created
SaveTileFail ==
  /\ mpc = "saving"
  /\ \E f \in {"absent", "partial"} : tileFile' = [tileFile EXCEPT ![cur] = f]
  /\ err' = "write failed"
  /\ mpc' = "caught"
  /\ UNCHANGED <<geo, cacheFile, memv, drv, cur, retryCount, result, flushv, callh, runh, endv,
                 flushCalls, writes, writesOk>>

\* setTimeout(r, DELAY_RATE_LIMIT_MS) fires: downloadWplaceTile(x, y, retryCount + 1)
RateLimitWaitDone ==
  /\ mpc = "wait_rl"
  /\ waits' = Append(waits, DELAY_RATE_LIMIT_MS)
  /\ retryCount' = retryCount + 1
  /\ mpc' = "call"
  /\ UNCHANGED <<geo, disk, memv, drv, cur, err, result, flushv, resps, reqs, runh, endv,
                 flushCalls, writes, writesOk>>

\* the catch block of line 709
CatchRetry ==
  /\ mpc = "caught"
  /\ ShouldRetry(retryCount)
  /\ mpc' = "wait_retry"
  /\ UNCHANGED <<geo, disk, memv, drv, callv, flushv, callh, runh, endv, flushCalls, writes, writesOk>>

CatchFail ==
  /\ mpc = "caught"
  /\ ~ShouldRetry(retryCount)
  /\ result' = Failed(err)
  /\ mpc' = "ret"
  /\ UNCHANGED <<geo, disk, memv, drv, cur, retryCount, err, flushv, callh, runh, endv,
                 flushCalls, writes, writesOk>>

\* a transient retry that does not count
RetryWaitDone_SameCount ==
  /\ mpc = "wait_retry"
  /\ waits' = Append(waits, RETRY_WAIT_MS)
  /\ mpc' = "call"
  /\ UNCHANGED <<geo, disk, memv, drv, callv, flushv, resps, reqs, runh, endv,
                 flushCalls, writes, writesOk>>

\* setTimeout(r, 1000) fires: downloadWplaceTile(x, y, retryCount + 1)
RetryWaitDone ==
  /\ mpc = "wait_retry"
  /\ waits' = Append(waits, RETRY_WAIT_MS)
  /\ retryCount' = retryCount + 1
  /\ mpc' = "call"
  /\ UNCHANGED <<geo, disk, memv, drv, cur, err, result, flushv, resps, reqs, runh, endv,
                 flushCalls, writes, writesOk>>

Fetcher ==
  \/ FetchCached \/ FetchExists \/ FetchRequest
  \/ Resp404 \/ Resp429 \/ RespHttpError \/ RespTransportFail \/ RespOk
  \/ SaveTileOk \/ SaveTileFail
  \/ RateLimitWaitDone \/ CatchRetry \/ CatchFail \/ RetryWaitDone

\* ---- the driver: downloadWplaceLineTiles ----

\* the main function has returned; the process ends once nothing is pending
MainDone(path) ==
  IF handlers = <<>>
    THEN mpc' = "exited" /\ exitCode' = 0 /\ exitPath' = path
    ELSE mpc' = "maindone" /\ UNCHANGED <<exitCode, exitPath>>

\* an array of all the tiles of all the segments, repeated ones included
UniqueTiles_Keep(raw) == raw

\* lines 625-662: the tiles of all segments are added to the Set allTiles as
\* `${x},${y}` and the Set is parsed back into tiles
UniqueTiles(raw) ==
  LET keys == Dedup([j \in DOMAIN raw |-> TileStr(raw[j][1], raw[j][2])])
  IN [k \in DOMAIN keys |-> <<ParseTile(keys[k]).x, ParseTile(keys[k]).y>>]

\* a filter that consults the cache only
Worklist_CacheOnly(ut) ==
  SelectSeq(ut, LAMBDA t : ~Has(TileKey(t)))

\* the filter of lines 668-672 over the unique tiles
Worklist(ut) ==
  SelectSeq(ut, LAMBDA t : ~Has(TileKey(t)) /\ ~Exists(t))

\* an extraction whose filter consults the tile directory only
ExtractOk_NoCacheFilter ==
  /\ mpc = "extract"
  /\ \E raw \in SeqsUpTo(Tiles, MaxWork) :
       /\ uniqueTiles' = UniqueTiles(raw)
       /\ tiles' = SelectSeq(uniqueTiles', LAMBDA t : ~Exists(t))
       /\ IF Len(tiles') = 0
            THEN MainDone("empty")
            ELSE mpc' = "loop" /\ UNCHANGED <<exitCode, exitPath>>
  /\ UNCHANGED <<geo, disk, memv, i, tally, callv, flushv, callh, runh, run, handlers,
                 flushCalls, writes, writesOk>>

\* extractTilesFromGeoJSON returns; an empty worklist returns at line 730
ExtractOk ==
  /\ mpc = "extract"
  /\ \E raw \in SeqsUpTo(Tiles, MaxWork) :
       /\ uniqueTiles' = UniqueTiles(raw)
       /\ tiles' = Worklist(uniqueTiles')
       /\ IF Len(tiles') = 0
            THEN MainDone("empty")
            ELSE mpc' = "loop" /\ UNCHANGED <<exitCode, exitPath>>
  /\ UNCHANGED <<geo, disk, memv, i, tally, callv, flushv, callh, runh, run, handlers,
                 flushCalls, writes, writesOk>>

\* extractTilesFromGeoJSON throws (fetch rejects, !response.ok, bad JSON)
ExtractFail ==
  /\ mpc = "extract"
  /\ mpc' = "catch"
  /\ UNCHANGED <<geo, disk, memv, drv, callv, flushv, callh, runh, endv, flushCalls, writes, writesOk>>

\* catch block of line 773: await saveCache404()
FatalFlush ==
  /\ mpc = "catch"
  /\ SaveStart("exit1")
  /\ UNCHANGED <<geo, disk, memv, drv, callv, callh, runh, endv, writesOk>>

\* a fatal path that exits with the success code
FatalExit_Zero ==
  /\ mpc = "exit1"
  /\ mpc' = "exited"
  /\ exitCode' = 0
  /\ exitPath' = "fatal"
  /\ UNCHANGED <<geo, disk, memv, drv, callv, flushv, callh, runh, run, handlers,
                 flushCalls, writes, writesOk>>

\* process.exit(1)
FatalExit ==
  /\ mpc = "exit1"
  /\ mpc' = "exited"
  /\ exitCode' = 1
  /\ exitPath' = "fatal"
  /\ UNCHANGED <<geo, disk, memv, drv, callv, flushv, callh, runh, run, handlers,
                 flushCalls, writes, writesOk>>

\* line 744: downloadWplaceTile(x, y) for tiles[i]
DriverCall ==
  /\ mpc = "loop"
  /\ cur' = tiles[i + 1]
  /\ retryCount' = 0
  /\ resps' = <<>> /\ reqs' = 0 /\ waits' = <<>>
  /\ mpc' = "call"
  /\ UNCHANGED <<geo, disk, memv, drv, err, result, flushv, runh, endv, flushCalls, writes, writesOk>>

\* lines 746-760: the counter that a result advances
Count(tl, r) ==
  IF r.success
    THEN IF r.cached
           THEN [tl EXCEPT !.skipped = @ + 1]
           ELSE [tl EXCEPT !.downloaded = @ + 1]
    ELSE IF r.reason = "404"
           THEN [tl EXCEPT !.missing = @ + 1]
           ELSE [tl EXCEPT !.failed = @ + 1]

\* lines 746-765: count the result, then the inter-request delay
Tally ==
  /\ mpc = "ret"
  /\ tally' = Count(tally, result)
  /\ mpc' = IF ~result.cached /\ i < Len(tiles) - 1 THEN "delay" ELSE "postdelay"
  /\ UNCHANGED <<geo, disk, memv, uniqueTiles, tiles, i, callv, flushv, callh, runh, endv,
                 flushCalls, writes, writesOk>>

\* setTimeout(r, DELAY_MS) fires
DelayDone ==
  /\ mpc = "delay"
  /\ mpc' = "postdelay"
  /\ UNCHANGED <<geo, disk, memv, drv, callv, flushv, callh, runh, endv, flushCalls, writes, writesOk>>

\* a loop that never saves between tiles
PeriodicFlush_Never ==
  /\ mpc = "postdelay"
  /\ mpc' = "next" /\ UNCHANGED <<flushCalls, flushCont, mainSnap, writes>>
  /\ UNCHANGED <<geo, disk, memv, drv, callv, callh, runh, endv, writesOk>>

\* lines 766-768
PeriodicFlush ==
  /\ mpc = "postdelay"
  /\ IF needsSave /\ (i % FlushEvery = 0)
       THEN SaveStart("next")
       ELSE mpc' = "next" /\ UNCHANGED <<flushCalls, flushCont, mainSnap, writes>>
  /\ UNCHANGED <<geo, disk, memv, drv, callv, callh, runh, endv, writesOk>>

\* i++ and the loop test
LoopNext ==
  /\ mpc = "next"
  /\ i' = i + 1
  /\ mpc' = IF i + 1 < Len(tiles) THEN "loop" ELSE "final"
  /\ UNCHANGED <<geo, disk, memv, uniqueTiles, tiles, tally, callv, flushv, callh, runh, endv,
                 flushCalls, writes, writesOk>>

\* a loop end that prints the summary without the final save
FinalFlush_Skip ==
  /\ mpc = "final"
  /\ mpc' = "summary"
  /\ UNCHANGED <<geo, disk, memv, drv, callv, flushv, callh, runh, endv, flushCalls, writes,
                 writesOk>>

\* line 771
FinalFlush ==
  /\ mpc = "final"
  /\ SaveStart("summary")
  /\ UNCHANGED <<geo, disk, memv, drv, callv, callh, runh, endv, writesOk>>

\* a function that returns after the final flush without printing
Complete_Silent ==
  /\ mpc = "summary"
  /\ MainDone("complete")
  /\ UNCHANGED <<geo, disk, memv, drv, callv, flushv, callh, run, handlers, flushCalls, writes, writesOk,
                 loaded, got404, sigCalls, sigCount, flushed, prevFlushed, summary>>

\* line 772, then the function returns
Complete ==
  /\ mpc = "summary"
  /\ summary' = TRUE
  /\ MainDone("complete")
  /\ UNCHANGED <<geo, disk, memv, drv, callv, flushv, callh, run, handlers, flushCalls, writes, writesOk,
                 loaded, got404, sigCalls, sigCount, flushed, prevFlushed>>

Driver ==
  \/ LoadCache \/ ExtractOk \/ ExtractFail \/ FatalFlush \/ FatalExit
  \/ DriverCall \/ Tally \/ DelayDone \/ PeriodicFlush \/ LoopNext
  \/ FinalFlush \/ Complete
  \/ FlushWriteOk \/ FlushWriteFail

\* ---- the signal handler: handleShutdown ----

\* SIGINT, SIGTERM or SIGHUP is delivered: saveCache404 up to its await; with a
\* clean cache it returns at once and process.exit(0) follows
Signal ==
  /\ mpc \in AwaitPcs
  /\ sigCount < MaxSignals
  /\ sigCount' = sigCount + 1
  /\ sigCalls' = sigCalls + 1
  /\ flushCalls' = flushCalls + 1
  /\ IF needsSave
       THEN /\ handlers' = Append(handlers, cache404)
            /\ writes' = writes + 1
            /\ UNCHANGED <<mpc, exitCode, exitPath>>
       ELSE /\ mpc' = "exited"
            /\ exitCode' = 0
            /\ exitPath' = "signal"
            /\ UNCHANGED <<handlers, writes>>
  /\ UNCHANGED <<geo, disk, memv, drv, callv, flushv, callh, run, writesOk,
                 loaded, got404, flushed, prevFlushed, summary>>

\* the Bun.write of a handler's saveCache404 resolves; process.exit(0) follows
HandlerWriteOk ==
  /\ mpc \in AwaitPcs
  /\ \E k \in DOMAIN handlers :
       /\ cacheFile' = [st |-> "ok", data |-> handlers[k]]
       /\ flushed' = flushed \cup Range(handlers[k])
       /\ writesOk' = writesOk + 1
       /\ handlers' = Remove(handlers, k)
  /\ needsSave' = FALSE
  /\ mpc' = "exited"
  /\ exitCode' = 0
  /\ exitPath' = "signal"
  /\ UNCHANGED <<geo, tileFile, cache404, drv, callv, flushv, callh, run, flushCalls, writes,
                 loaded, got404, sigCalls, sigCount, prevFlushed, summary>>

\* ... or rejects: caught and logged; process.exit(0) follows
HandlerWriteFail ==
  /\ mpc \in AwaitPcs
  /\ \E k \in DOMAIN handlers : handlers' = Remove(handlers, k)
  /\ mpc' = "exited"
  /\ exitCode' = 0
  /\ exitPath' = "signal"
  /\ UNCHANGED <<geo, disk, memv, drv, callv, flushv, callh, runh, run, flushCalls, writes, writesOk>>

Shutdown == Signal \/ HandlerWriteOk \/ HandlerWriteFail

\* ---- consecutive runs ----

\* the script is started again over the same disk
NewRun ==
  /\ mpc = "exited"
  /\ run < MaxRuns
  /\ run' = run + 1
  /\ prevFlushed' = {TileKey(t) : t \in got404} \cap flushed
  /\ mpc' = "load"
  /\ cache404' = <<>> /\ needsSave' = FALSE
  /\ uniqueTiles' = <<>> /\ tiles' = <<>> /\ i' = 0 /\ tally' = ZeroTally
  /\ cur' = NoTile /\ retryCount' = 0 /\ err' = "" /\ result' = NoResult
  /\ flushCont' = "" /\ mainSnap' = <<>> /\ handlers' = <<>>
  /\ exitCode' = -1 /\ exitPath' = "none" /\ summary' = FALSE
  /\ resps' = <<>> /\ reqs' = 0 /\ waits' = <<>>
  /\ loaded' = {} /\ got404' = {} /\ flushCalls' = 0 /\ sigCalls' = 0
  /\ sigCount' = 0 /\ writes' = 0 /\ writesOk' = 0 /\ flushed' = {}
  /\ UNCHANGED <<geo, disk>>

\* ---- the cache and the Fetcher called directly, as a test does ----

HarnessInit ==
  /\ cacheFile \in CacheFileInits
  /\ tileFile \in [Tiles -> {"absent", "complete"}]
  /\ cache404 = (IF cacheFile.st = "ok" THEN Dedup(cacheFile.data) ELSE <<>>)
  /\ loaded = (IF cacheFile.st = "ok" THEN Range(cacheFile.data) ELSE {})
  /\ needsSave = FALSE
  /\ uniqueTiles = <<>> /\ tiles = <<>> /\ i = 0 /\ tally = ZeroTally
  /\ cur = NoTile /\ retryCount = 0 /\ err = "" /\ result = NoResult
  /\ flushCont = "" /\ mainSnap = <<>> /\ handlers = <<>>
  /\ exitCode = -1 /\ exitPath = "none" /\ summary = FALSE
  /\ resps = <<>> /\ reqs = 0 /\ waits = <<>>
  /\ got404 = {} /\ flushCalls = 0 /\ sigCalls = 0
  /\ sigCount = 0 /\ writes = 0 /\ writesOk = 0 /\ flushed = {}
  /\ mpc = "idle"
  /\ run = 1
  /\ prevFlushed = {}
  /\ GeoIdle

\* downloadWplaceTile(x, y) for any tile
HarnessCall ==
  /\ mpc = "idle"
  /\ \E t \in Tiles : cur' = t
  /\ retryCount' = 0
  /\ resps' = <<>> /\ reqs' = 0 /\ waits' = <<>>
  /\ mpc' = "call"
  /\ UNCHANGED <<geo, disk, memv, drv, err, result, flushv, runh, endv, flushCalls, writes, writesOk>>

\* the caller has taken the result
HarnessReturn ==
  /\ mpc = "ret"
  /\ mpc' = "idle"
  /\ cur' = NoTile /\ retryCount' = 0 /\ err' = "" /\ result' = NoResult
  /\ resps' = <<>> /\ reqs' = 0 /\ waits' = <<>>
  /\ UNCHANGED <<geo, disk, memv, drv, flushv, runh, endv, flushCalls, writes, writesOk>>

\* saveCache404()
HarnessFlush ==
  /\ mpc = "idle"
  /\ flushCalls < MaxFlushes
  /\ SaveStart("idle")
  /\ UNCHANGED <<geo, disk, memv, drv, callv, callh, runh, endv, writesOk>>

\* the filter of extractTilesFromGeoJSON over any list of unique tiles
HarnessExtract ==
  /\ mpc = "idle"
  /\ uniqueTiles = <<>>
  /\ \E raw \in SeqsUpTo(Tiles, MaxWork) :
       /\ uniqueTiles' = UniqueTiles(raw)
       /\ tiles' = Worklist(uniqueTiles')
  /\ UNCHANGED <<geo, disk, memv, mpc, i, tally, callv, flushv, callh, runh, endv,
                 flushCalls, writes, writesOk>>

\* the driver's counting of lines 746-760 applied to the result of the call
HarnessCount ==
  /\ mpc = "ret"
  /\ tally.downloaded + tally.skipped + tally.missing + tally.failed < MaxCounted
  /\ tally' = Count(tally, result)
  /\ mpc' = "idle"
  /\ cur' = NoTile /\ retryCount' = 0 /\ err' = "" /\ result' = NoResult
  /\ resps' = <<>> /\ reqs' = 0 /\ waits' = <<>>
  /\ UNCHANGED <<geo, disk, memv, uniqueTiles, tiles, i, flushv, runh, endv,
                 flushCalls, writes, writesOk>>

Harness ==
  \/ HarnessCall \/ HarnessReturn \/ HarnessFlush \/ HarnessExtract
  \/ FlushWriteOk \/ FlushWriteFail

\* ---- specifications ----

\* In a run the worklist never holds a tile whose key is cached (CachedBranchDead
\* below), so the first return of downloadWplaceTile is not a step of a run.
FetcherInRun ==
  \/ FetchExists \/ FetchRequest
  \/ Resp404 \/ Resp429 \/ RespHttpError \/ RespTransportFail \/ RespOk
  \/ SaveTileOk \/ SaveTileFail
  \/ RateLimitWaitDone \/ CatchRetry \/ CatchFail \/ RetryWaitDone

Next == Driver \/ FetcherInRun \/ Shutdown \/ NewRun

\* runs of the script
Spec == Init /\ [][Next]_vars

HarnessNext == Harness \/ Fetcher

\* the cache and the Fetcher driven call by call
FetcherSpec == HarnessInit /\ [][HarnessNext]_vars

CountNext == HarnessCall \/ HarnessCount \/ Fetcher

\* every result the Fetcher can return, counted as the driver counts it
CountSpec == HarnessInit /\ [][CountNext]_vars

\* the guard of FetchCached is false at every call a run makes
CachedBranchDead == (mpc = "call") => ~Has(TileKey(cur))

\* ---- the download loop over a worklist longer than the flush period ----

\* a worklist of MaxLong distinct tiles, none of them cached or on disk
LongWork == [k \in 1..MaxLong |-> <<k, 1>>]

\* the state of downloadWplaceLineTiles at line 740, the worklist just announced
LongInit ==
  /\ cacheFile = [st |-> "absent", data |-> <<>>]
  /\ tileFile = [t \in Range(LongWork) |-> "absent"]
  /\ cache404 = <<>> /\ needsSave = FALSE
  /\ uniqueTiles = LongWork /\ tiles = LongWork /\ i = 0 /\ tally = ZeroTally
  /\ cur = NoTile /\ retryCount = 0 /\ err = "" /\ result = NoResult
  /\ flushCont = "" /\ mainSnap = <<>> /\ handlers = <<>>
  /\ exitCode = -1 /\ exitPath = "none" /\ summary = FALSE
  /\ resps = <<>> /\ reqs = 0 /\ waits = <<>>
  /\ loaded = {} /\ got404 = {} /\ flushCalls = 0 /\ sigCalls = 0
  /\ sigCount = 0 /\ writes = 0 /\ writesOk = 0 /\ flushed = {}
  /\ mpc = "loop"
  /\ run = 1
  /\ prevFlushed = {}
  /\ GeoIdle

\* the server answers 404 for at most Max404 tiles of the worklist
LongResp404 == Cardinality(got404) < Max404 /\ Resp404

\* every other tile fails: the server is unreachable for it
LongNext ==
  \/ DriverCall \/ FetchRequest \/ LongResp404 \/ RespTransportFail
  \/ CatchRetry \/ RetryWaitDone \/ CatchFail
  \/ Tally \/ DelayDone \/ PeriodicFlush \/ LoopNext \/ FinalFlush \/ Complete
  \/ FlushWriteOk \/ FlushWriteFail

\* the loop of lines 740-772 over the long worklist
LongSpec == LongInit /\ [][LongNext]_vars

\* ---- the Mapper and the Sampler applied to coordinates ----

GeoInit ==
  /\ cacheFile = [st |-> "absent", data |-> <<>>]
  /\ tileFile = [t \in Tiles |-> "absent"]
  /\ FreshMemory
  /\ mpc = "idle"
  /\ run = 1
  /\ prevFlushed = {}
  /\ GeoIdle

\* lonLatToWplaceTile(lon, lat) for a coordinate
MapCoord ==
  /\ \E c \in Coords :
       /\ coord' = c
       /\ tc' = GridCoord(AsPoint(c))
       /\ tile' = CheckTile(tc')
  /\ UNCHANGED <<disk, memv, mpc, drv, callv, flushv, callh, runh, endv, flushCalls, writes,
                 writesOk, seg, segTiles, segPoints, features, gpc>>

\* lines 568-576 for any tile coordinate the tile grid may hand back
MapGrid ==
  /\ \E c \in GridCoords :
       /\ tc' = c
       /\ tile' = CheckTile(c)
  /\ UNCHANGED <<disk, memv, mpc, drv, callv, flushv, callh, runh, endv, flushCalls, writes,
                 writesOk, coord, seg, segTiles, segPoints, features, gpc>>

\* the next segment of a line
PickSegment ==
  /\ gpc = "sampled"
  /\ seg' \in Segments
  /\ segTiles' = <<>>
  /\ segPoints' = <<>>
  /\ gpc' = "picked"
  /\ UNCHANGED <<disk, memv, mpc, drv, callv, flushv, callh, runh, endv, flushCalls, writes,
                 writesOk, coord, tc, tile, features>>

\* getTilesForLineSegment(startCoord, endCoord)
SampleSegment ==
  /\ gpc = "picked"
  /\ segTiles' = getTilesForLineSegment(seg[1], seg[2])
  /\ segPoints' = SamplePoints(seg[1], seg[2])
  /\ gpc' = "sampled"
  /\ UNCHANGED <<disk, memv, mpc, drv, callv, flushv, callh, runh, endv, flushCalls, writes,
                 writesOk, coord, tc, tile, seg, features>>

GeoNext == MapCoord \/ MapGrid \/ PickSegment \/ SampleSegment

\* the two functions applied to coordinates and segments
GeoSpec == GeoInit /\ [][GeoNext]_vars

\* ---- the extraction applied to a line feed ----

\* a line that ignores the coordinates of a MultiLineString
LineStrings_Single(geom) ==
  IF geom.type = "LineString" THEN <<geom.coordinates>> ELSE <<>>

\* lines 630-637: the line strings of a geometry
LineStrings(geom) ==
  IF geom.type = "LineString" THEN <<geom.coordinates>>
  ELSE IF geom.type = "MultiLineString" THEN geom.coordinates
  ELSE <<>>

RECURSIVE LineTiles(_, _)
\* lines 641-653: the tiles of the segments k, k + 1, ... of a line, in order
LineTiles(coords, k) ==
  IF Len(coords) < 2 \/ k > Len(coords) - 1 THEN <<>>
  ELSE LET st == getTilesForLineSegment(coords[k], coords[k + 1])
       IN [j \in DOMAIN st |-> <<st[j].x, st[j].y>>] \o LineTiles(coords, k + 1)

RECURSIVE LinesTiles(_, _)
\* line 640: the tiles of the line strings k, k + 1, ...
LinesTiles(ls, k) ==
  IF k > Len(ls) THEN <<>> ELSE LineTiles(ls[k], 1) \o LinesTiles(ls, k + 1)

RECURSIVE FeatureTiles(_, _)
\* lines 627-655: the tiles of the features k, k + 1, ...; a feature with no
\* geometry has the type "none"
FeatureTiles(fs, k) ==
  IF k > Len(fs) THEN <<>>
  ELSE (IF fs[k].type = "none" THEN <<>> ELSE LinesTiles(LineStrings(fs[k]), 1))
         \o FeatureTiles(fs, k + 1)

\* coordinates in tile (0, 0) and in tile (3, 3)
CornerA == <<-HalfWorld, LatEdge>>
CornerB == <<-HalfWorld + 10, LatEdge - 2>>
InnerA == <<-HalfWorld + 1200, LatEdge - 550>>
InnerB == <<-HalfWorld + 1210, LatEdge - 552>>

\* geometries of a feed: lines, a line of one point, other types, none
Geometries ==
  {[type |-> "LineString", coordinates |-> <<CornerA, CornerB>>],
   [type |-> "LineString", coordinates |-> <<InnerA, InnerB, InnerA>>],
   [type |-> "LineString", coordinates |-> <<CornerA>>],
   [type |-> "MultiLineString", coordinates |-> <<<<CornerA, CornerB>>, <<InnerA, InnerB>>>>],
   [type |-> "MultiLineString", coordinates |-> <<<<InnerB>>, <<CornerB, CornerA>>>>],
   [type |-> "Point", coordinates |-> InnerA],
   [type |-> "Polygon", coordinates |-> <<<<CornerA, CornerB, InnerA, CornerA>>>>],
   [type |-> "none", coordinates |-> <<>>]}

\* the tiles such a feed can yield
FeedTiles == (0..4) \X (0..4)

\* tiles that may be on disk, keys that may be cached, when the feed is read
DiskTiles == {<<0, 0>>, <<3, 3>>}
CachedKeys == {"0/1", "3/3", "4/4"}

ExtractInit ==
  /\ cacheFile = [st |-> "absent", data |-> <<>>]
  /\ \E E \in SUBSET DiskTiles :
       tileFile = [t \in FeedTiles |-> IF t \in E THEN "complete" ELSE "absent"]
  /\ cache404 \in DistinctSeqs(CachedKeys, 2)
  /\ needsSave = FALSE
  /\ uniqueTiles = <<>> /\ tiles = <<>> /\ i = 0 /\ tally = ZeroTally
  /\ cur = NoTile /\ retryCount = 0 /\ err = "" /\ result = NoResult
  /\ flushCont = "" /\ mainSnap = <<>> /\ handlers = <<>>
  /\ exitCode = -1 /\ exitPath = "none" /\ summary = FALSE
  /\ resps = <<>> /\ reqs = 0 /\ waits = <<>>
  /\ loaded = Range(cache404) /\ got404 = {} /\ flushCalls = 0 /\ sigCalls = 0
  /\ sigCount = 0 /\ writes = 0 /\ writesOk = 0 /\ flushed = {}
  /\ mpc = "extract"
  /\ run = 1
  /\ prevFlushed = {}
  /\ GeoIdle

\* extractTilesFromGeoJSON() for a feed that was fetched and parsed
ExtractFeed ==
  /\ mpc = "extract" /\ gpc = "picked"
  /\ \E fs \in SeqsUpTo(Geometries, MaxFeatures) :
       /\ features' = fs
       /\ uniqueTiles' = UniqueTiles(FeatureTiles(fs, 1))
       /\ tiles' = Worklist(uniqueTiles')
  /\ gpc' = "extracted"
  /\ UNCHANGED <<disk, memv, mpc, i, tally, callv, flushv, callh, runh, endv, flushCalls,
                 writes, writesOk, coord, tc, tile, seg, segTiles, segPoints>>

\* the extraction applied to feeds, caches and tile directories
ExtractSpec == ExtractInit /\ [][ExtractFeed]_vars

\* ---- properties ----

Last(s) == s[Len(s)]
InCall == mpc \in {"call", "fetching", "saving", "caught", "wait_rl", "wait_retry"}
\* the last top-level Fetcher call has returned and the process lives
Returned == ~InCall /\ mpc # "exited" /\ (resps # <<>> \/ result # NoResult)
AllIn(s, S) == \A k \in DOMAIN s : s[k] \in S
KeysOf(T) == {TileKey(t) : t \in T}

\* C1: a 404 response ends the call at once (it is the last response, no wait
\* and no request follows), the result is '404', the tile's key is in the cache
\* and the dirty flag is set; every later call for a tile that got a 404
\* returns cached_404 without issuing a request.
C1_NotFoundCached ==
  /\ \A k \in DOMAIN resps :
       resps[k] = "404" =>
         /\ k = Len(resps) /\ reqs = k /\ ~InCall
         /\ cur \in got404
         /\ Has(TileKey(cur))
         /\ mpc = "ret" => (result = Failed("404") /\ needsSave)
  /\ (cur \in got404 /\ ~(resps # <<>> /\ Last(resps) = "404")) =>
       /\ reqs = 0
       /\ mpc \in {"call", "ret", "idle", "flush"}
       /\ mpc = "ret" => result = Cached404
  /\ \A t \in got404 : Has(TileKey(t))

\* a second call for a tile that got a 404 has returned
C1_Witness ==
  /\ mpc = "ret" /\ cur \in got404 /\ resps = <<>> /\ reqs = 0
  /\ result = Cached404 /\ needsSave

\* C2 as stated: after three consecutive 429 responses no further request is
\* issued and the call has returned failed after 3 backoff waits.
C2_ThreeResponses ==
  (Len(resps) >= 3 /\ AllIn(SubSeq(resps, 1, 3), {"429"})) =>
    /\ reqs = 3
    /\ ~InCall => (result.success = FALSE /\ Len(waits) = 3)

\* C2 amended: a call whose responses are all 429 retries after each of the
\* first three (one 5 s wait each) and returns failed at the fourth, after
\* exactly 3 rate-limit waits and 4 requests.
C2_RateLimitExhausted ==
  (resps # <<>> /\ AllIn(resps, {"429"})) =>
    /\ Len(resps) <= RateLimitRetries + 1
    /\ Len(resps) <= RateLimitRetries =>
         /\ mpc \in {"wait_rl", "call", "fetching"}
         /\ reqs \in {Len(resps), Len(resps) + 1}
         /\ Len(waits) \in {Len(resps) - 1, Len(resps)}
    /\ Len(resps) = RateLimitRetries + 1 =>
         /\ reqs = 4
         /\ waits = <<DELAY_RATE_LIMIT_MS, DELAY_RATE_LIMIT_MS, DELAY_RATE_LIMIT_MS>>
         /\ mpc \in {"caught", "ret", "idle", "flush"}
         /\ mpc # "caught" => result = Failed("HTTP 429")
    /\ AllIn(waits, {DELAY_RATE_LIMIT_MS})

\* four 429 responses, the call has returned failed
C2_Witness ==
  /\ mpc = "ret" /\ resps = <<"429", "429", "429", "429">>
  /\ result = Failed("HTTP 429") /\ Len(waits) = 3 /\ reqs = 4

TransientKinds == {"500", "neterr"}
TransientMsgs == {"HTTP 500", "fetch failed"}

C3_State ==
  (resps # <<>> /\ AllIn(resps, TransientKinds)) =>
    /\ Len(resps) <= 3
    /\ reqs \in {Len(resps), Len(resps) + 1}
    /\ reqs <= 3
    /\ AllIn(waits, {RETRY_WAIT_MS})
    /\ Len(waits) \in {reqs - 1, reqs}
    /\ Returned =>
         /\ Len(resps) = 3 /\ reqs = 3
         /\ waits = <<RETRY_WAIT_MS, RETRY_WAIT_MS>>
         /\ result.success = FALSE /\ result.cached = FALSE
         /\ result.reason \in TransientMsgs

C3_Step ==
  /\ (mpc = "ret" /\ result.reason \in TransientMsgs) =>
       /\ tally'.failed = tally.failed + 1
       /\ i' = i /\ exitCode' = -1
       /\ mpc' = IF i < Len(tiles) - 1 THEN "delay" ELSE "postdelay"
  /\ (mpc = "next" /\ result.reason \in TransientMsgs /\ i + 1 < Len(tiles)) =>
       (mpc' = "loop" /\ i' = i + 1)
  /\ (mpc = "loop" /\ mpc' # "loop") =>
       (mpc' = "call" /\ cur' = tiles[i + 1] /\ retryCount' = 0)

\* C3: a call whose requests all end in a transport failure or an HTTP error
\* other than 404 and 429 makes 3 requests with one 1 s wait before each of
\* the 2 retries and returns failed with the error's message; the driver
\* counts it as failed and goes on to the next tile of the worklist.
C3_TransientRetries == [](C3_State) /\ [][C3_Step]_vars

\* the tile after a failed one is being fetched
C3_Witness ==
  /\ mpc = "fetching" /\ i = 1 /\ tally.failed = 1
  /\ result.reason \in TransientMsgs /\ cur = tiles[2]

\* extractTilesFromGeoJSON has just computed the worklist
Filtered ==
  \/ mpc = "extract" /\ uniqueTiles' # uniqueTiles
  \/ mpc = "extract" /\ mpc' = "loop"
  \/ mpc = "idle" /\ mpc' = "idle" /\ flushCalls' = flushCalls

C4_Step ==
  /\ Filtered =>
       /\ \A t \in Range(tiles') : ~Exists(t)
       /\ \A t \in Range(uniqueTiles') : Exists(t) => t \notin Range(tiles')
  /\ reqs' = reqs + 1 => ~Exists(cur)
  /\ (mpc = "call" /\ Exists(cur)) =>
       /\ mpc' = "ret" /\ reqs' = reqs /\ result'.cached
       /\ UNCHANGED <<cache404, needsSave, cacheFile, tileFile>>

\* C4: a tile whose file exists is left out of the worklist, no request is
\* issued for it, and a Fetcher call for it returns at once leaving the cache,
\* the dirty flag and the files as they were, whether or not its key is cached.
C4_ExistingNeverFetched == [][C4_Step]_vars

\* a call for an existing tile whose key is also cached has returned, and the
\* worklist computed from a list holding that tile leaves it out
C4_Witness ==
  /\ mpc = "ret" /\ Exists(cur) /\ Has(TileKey(cur)) /\ reqs = 0
  /\ cur \in Range(uniqueTiles) /\ cur \notin Range(tiles)
  /\ \E t \in Tiles : Exists(t) /\ ~Has(TileKey(t)) /\ t \in Range(uniqueTiles)

\* C5 as stated: in the run after one that added and flushed a key, once the
\* cache is loaded the key is in it, and no request is issued for its tile.
C5_RoundTrip ==
  (run > 1 /\ mpc \notin {"load", "exited"}) =>
    /\ prevFlushed \subseteq Range(cache404)
    /\ reqs > 0 => TileKey(cur) \notin prevFlushed

C6_State ==
  /\ Range(cache404) \subseteq loaded \cup KeysOf(got404)
  /\ flushed \subseteq loaded \cup KeysOf(got404)
  /\ \A t \in got404 : Has(TileKey(t))

C6_Step ==
  ~(mpc = "exited" /\ mpc' = "load") =>
    /\ Range(cache404) \subseteq Range(cache404')
    /\ (cache404' # cache404 /\ mpc # "load") =>
         (Last(resps') = "404" /\ Range(cache404') = Range(cache404) \cup {TileKey(cur)})

\* C6: every key of the cache was loaded from the file at the start of the run
\* or added at a 404 response for its tile, and so was every key written by a
\* flush; except when a new run starts, no step removes a key.
C6_CacheGrowsFrom404 == [](C6_State) /\ [][C6_Step]_vars

\* a loaded key and a key added at a 404 have been flushed together
C6_Witness ==
  /\ loaded # {} /\ got404 # {}
  /\ ~(KeysOf(got404) \subseteq loaded)
  /\ loaded \cup KeysOf(got404) \subseteq flushed

C7_Step ==
  /\ (flushCalls' = flushCalls + 1 /\ ~needsSave) =>
       /\ writes' = writes
       /\ UNCHANGED <<cacheFile, cache404, needsSave, mainSnap, handlers, writesOk>>
  /\ (flushCalls' = flushCalls + 1 /\ needsSave) =>
       /\ writes' = writes + 1
       /\ UNCHANGED <<cacheFile, cache404, needsSave, writesOk>>
       /\ \/ mpc' = "flush" /\ mainSnap' = cache404 /\ handlers' = handlers
          \/ handlers' = Append(handlers, cache404) /\ mainSnap' = mainSnap
  /\ writesOk' = writesOk + 1 =>
       /\ needsSave' = FALSE
       /\ cacheFile'.st = "ok"
       /\ \/ mpc = "flush" /\ mpc' # "exited" /\ cacheFile'.data = mainSnap
          \/ \E k \in DOMAIN handlers :
               cacheFile'.data = handlers[k] /\ handlers' = Remove(handlers, k)
       /\ cache404' = cache404
  /\ cacheFile' # cacheFile => writesOk' = writesOk + 1
  /\ (needsSave /\ ~needsSave' /\ mpc' # "load") => writesOk' = writesOk + 1
  /\ writes' # writes => (flushCalls' = flushCalls + 1 \/ mpc' = "load")

\* C7: saveCache404 called with the dirty flag set starts one write of the
\* whole key set as it is at the call; when that write completes the file
\* holds exactly that array and the flag is clear.  Called with the flag clear
\* it starts no write and changes neither the file, the cache nor the flag.
\* Nothing else writes the file or clears the flag.
C7_FlushEffect == [][C7_Step]_vars

\* one flush has written the loaded and the added keys over the old file, and
\* a later flush found the flag clear and wrote nothing
C7_Witness ==
  /\ writesOk = 1 /\ writes = 1 /\ flushCalls >= 2 /\ ~needsSave
  /\ loaded # {} /\ got404 # {}
  /\ cacheFile = [st |-> "ok", data |-> cache404]
  /\ Len(cache404) > Cardinality(loaded)

\* C8 as stated: whenever the process has ended, saveCache404 was invoked.
C8_FlushBeforeExit == (mpc = "exited") => flushCalls >= 1

\* C8 amended: the process ends after a completed worklist, after a fatal
\* error or after a signal only once saveCache404 has been invoked; when the
\* worklist is empty the main function returns without invoking it, the dirty
\* flag being clear.
C8_FlushUnlessEmpty ==
  (mpc = "exited") =>
    IF exitPath = "empty"
      THEN flushCalls = 0 /\ ~needsSave /\ tiles = <<>> /\ exitCode = 0
      ELSE exitPath \in {"complete", "fatal", "signal"} /\ flushCalls >= 1

\* a run with work to do has completed without a signal, a 404 left for the
\* final flush
C8_Witness ==
  /\ mpc = "exited" /\ exitPath = "complete" /\ sigCount = 0
  /\ flushCalls >= 1 /\ tiles # <<>> /\ got404 # {}

\* C9 as stated: a run ended by a signal has invoked the handler's flush
\* exactly once and no cache write is pending when the process exits.
C9_OneFlushOnSignal ==
  (mpc = "exited" /\ exitPath = "signal") =>
    /\ sigCalls = 1
    /\ handlers = <<>>

\* C10 as stated: while a signal handler's flush is pending the main function
\* is not in the middle of a flush and adds no key, and a clear dirty flag at
\* exit means that every key added in the run is in the file.
C10_SinglePath ==
  /\ handlers # <<>> =>
       /\ mpc # "flush"
       /\ \A k \in DOMAIN handlers : handlers[k] = cache404
  /\ (mpc = "exited" /\ ~needsSave /\ got404 # {}) =>
       (cacheFile.st = "ok" /\ KeysOf(got404) \subseteq Range(cacheFile.data))

\* ---- the periodic flush ----

\* the key of the tile is in the cache but not in the cache file
Unflushed(t) ==
  /\ Has(TileKey(t))
  /\ ~(cacheFile.st = "ok" /\ TileKey(t) \in Range(cacheFile.data))

\* cache writes of the main function that were rejected
FailedWrites == writes - writesOk - (IF mpc = "flush" THEN 1 ELSE 0)

\* the check of line 766 that follows the tile at index i: a dirty cache at a
\* multiple of FlushEvery starts saveCache404 with the whole cache
C11_Step ==
  (mpc = "postdelay" /\ needsSave /\ i % FlushEvery = 0) =>
    /\ mpc' = "flush"
    /\ flushCalls' = flushCalls + 1
    /\ mainSnap' = cache404

\* unless a write was rejected, a key added at index j is in the file before
\* the tile at index j + FlushEvery is reached: the loop never goes past a
\* multiple of FlushEvery, nor past the final flush, with that key unflushed
C11_State ==
  (FailedWrites = 0) =>
    \A k \in DOMAIN tiles :
      (tiles[k] \in got404 /\ Unflushed(tiles[k])) =>
        /\ i - (k - 1) < FlushEvery
        /\ ~(mpc = "next" /\ i % FlushEvery = 0)
        /\ mpc \notin {"summary", "maindone", "exited"}

\* C11: the download loop starts a flush of a dirty cache after every tile
\* whose index is a multiple of 20, so a key added to the cache is not left
\* out of the cache file across more than 20 processed tiles.
C11_PeriodicFlush == [](C11_State) /\ [][C11_Step]_vars

\* the second tile of the long worklist got a 404, nothing was written until
\* the check after the twenty-first tile, and that write put the key in the file
C11_Witness ==
  /\ i = FlushEvery /\ mpc = "next" /\ Len(tiles) > FlushEvery
  /\ got404 = {tiles[2]}
  /\ writes = 1 /\ writesOk = 1
  /\ ~Unflushed(tiles[2]) /\ ~needsSave

\* ---- the tally ----

C13_SummaryAlways ==
  (mpc = "exited" /\ exitPath \in {"complete", "empty", "fatal"}) => summary

\* C13: the count-by-outcome summary is printed exactly when the loop over a
\* worklist that is not empty has ended and the final flush has returned: a
\* run that completes has printed it, with counters that add up to the length
\* of the worklist; a run that finds nothing to download or aborts on a fatal
\* error has not.
C13_SummaryOnCompletion ==
  /\ summary =>
       /\ tiles # <<>> /\ i = Len(tiles)
       /\ tally.downloaded + tally.skipped + tally.missing + tally.failed = Len(tiles)
  /\ (mpc = "exited" /\ exitPath = "complete") => summary
  /\ (mpc = "exited" /\ exitPath \in {"empty", "fatal"}) => ~summary

\* a run over two tiles has printed its summary and ended
C13_Witness ==
  /\ mpc = "exited" /\ exitPath = "complete" /\ summary
  /\ Len(tiles) = 2 /\ sigCount = 0

\* ---- the exit code ----

C14_State ==
  (mpc = "exited") =>
    /\ exitCode \in {0, 1}
    /\ exitPath \in {"complete", "empty"} => exitCode = 0
    /\ exitPath = "fatal" <=> exitCode = 1
    /\ exitCode = 1 => (tiles = <<>> /\ tally = ZeroTally /\ flushCalls >= 1)
    /\ tally.failed > 0 => exitCode = 0

C14_Step ==
  /\ mpc' = "catch" => mpc \in {"extract", "catch"}
  /\ mpc = "catch" => (mpc' = "exit1" /\ flushCalls' = flushCalls + 1 /\ ~needsSave)
  /\ mpc = "exit1" => (mpc' = "exited" /\ exitCode' = 1)
  /\ (exitCode' = 1 /\ exitCode # 1) => mpc = "exit1"

\* C14: a run that completes, the empty worklist included, exits with code 0;
\* the only way to a non-zero exit code is a failure of the feed extraction,
\* which calls saveCache404 (the cache is clean then, nothing is written) and
\* exits with code 1; a run in which tiles failed still exits with code 0.
C14_ExitCode == [](C14_State) /\ [][C14_Step]_vars

\* the feed could not be read: saveCache404 was called and the run exited with 1
C14_Witness ==
  /\ mpc = "exited" /\ exitCode = 1 /\ exitPath = "fatal"
  /\ flushCalls = 1 /\ sigCount = 0

\* ---- loading the cache ----

\* C15: loadCache404 never aborts the run and never writes the cache file:
\* from a file that is missing or cannot be read or parsed the run goes on to
\* the extraction with an empty cache and a clear dirty flag.
C15_LoadNeverAborts ==
  [][mpc = "load" =>
       /\ cacheFile' = cacheFile
       /\ mpc' \in {"load", "extract", "exited"}
       /\ mpc' = "exited" => exitPath' = "signal"
       /\ (mpc' = "extract" /\ cacheFile.st # "ok") =>
            (cache404' = <<>> /\ ~needsSave' /\ writes' = 0)]_vars

\* the run goes on after its load found a cache file that cannot be parsed
C15_Witness ==
  /\ mpc = "fetching" /\ run = 1
  /\ cacheFile.st = "corrupt" /\ cache404 = <<>> /\ loaded = {}

\* ---- the Mapper ----

\* C16: whatever tile coordinate the tile grid computes for a coordinate,
\* lonLatToWplaceTile returns null or a tile with z = 11 whose x and y are
\* both within 0 .. 2^z - 1, and that tile is the one the grid computed.
C16_MapperRange ==
  \/ tile = Null
  \/ /\ tile.z = WPLACE_ZOOM
     /\ tile.x \in 0..(2 ^ tile.z - 1)
     /\ tile.y \in 0..(2 ^ tile.z - 1)
     /\ tc # Null /\ tile = [x |-> tc.x, y |-> tc.y, z |-> tc.z]

\* the coordinate next to the south-east corner of the world is mapped to
\* the last tile of the grid
C16_Witness ==
  /\ coord = <<HalfWorld - 1, -LatEdge + 1>>
  /\ tc = GridCoord(AsPoint(coord))
  /\ tile = [x |-> 2 ^ WPLACE_ZOOM - 1, y |-> 2 ^ WPLACE_ZOOM - 1, z |-> WPLACE_ZOOM]

\* ---- the Sampler ----

\* C17: the array getTilesForLineSegment returns holds the tile of the start
\* coordinate and the tile of the end coordinate, each whenever
\* lonLatToWplaceTile returns a tile for that coordinate.
C17_EndpointsCovered ==
  (gpc = "sampled") =>
    \A k \in {1, 2} :
      LET t == lonLatToWplaceTile(AsPoint(seg[k]))
      IN t # Null => (\E j \in DOMAIN segTiles : segTiles[j] = t)

\* a segment that comes in from beyond the north edge: only its end
\* coordinate has a tile
C17_Witness ==
  /\ gpc = "sampled"
  /\ seg = <<<<-HalfWorld, LatEdge + 2>>, <<-HalfWorld, LatEdge>>>>
  /\ lonLatToWplaceTile(AsPoint(seg[1])) = Null
  /\ lonLatToWplaceTile(AsPoint(seg[2])) = [x |-> 0, y |-> 0, z |-> WPLACE_ZOOM]
  /\ \E j \in DOMAIN segTiles : segTiles[j] = [x |-> 0, y |-> 0, z |-> WPLACE_ZOOM]

\* C18: the array getTilesForLineSegment returns holds, once each, exactly
\* the tiles in range among the tiles (x + dx, y + dy), dx and dy in
\* {-1, 0, 1}, around the tiles (x, y) of the sampled points that have a tile;
\* for the segment from [0, 0] to [0.01, 0] it holds the tile of [0, 0] and
\* its 8 neighbours.
C18_Neighbourhoods ==
  (gpc = "sampled") =>
    LET n == NumPoints(seg[1], seg[2])
        mapped == {lonLatToWplaceTile(SamplePoint(seg[1], seg[2], n, k)) : k \in 0..LastIndex(n)}
                    \ {Null}
        inRange(a) == a >= 0 /\ a <= 2 ^ WPLACE_ZOOM - 1
        around == {[x |-> t.x + d[1], y |-> t.y + d[2], z |-> WPLACE_ZOOM] :
                     t \in mapped, d \in {-1, 0, 1} \X {-1, 0, 1}}
        origin == lonLatToWplaceTile(AsPoint(<<0, 0>>))
    IN /\ Range(segTiles) = {t \in around : inRange(t.x) /\ inRange(t.y)}
       /\ Cardinality(Range(segTiles)) = Len(segTiles)
       /\ seg = <<<<0, 0>>, <<Scale \div 100, 0>>>> =>
            /\ Len(segTiles) = 9
            /\ \A d \in {-1, 0, 1} \X {-1, 0, 1} :
                 [x |-> origin.x + d[1], y |-> origin.y + d[2], z |-> WPLACE_ZOOM]
                   \in Range(segTiles)

\* a segment at the north-west corner of the world: of the nine tiles around
\* tile (0, 0) the four in range are returned
C18_Witness ==
  /\ gpc = "sampled"
  /\ seg = <<<<-HalfWorld, LatEdge>>, <<-HalfWorld + 10, LatEdge - 2>>>>
  /\ Len(segTiles) = 4
  /\ [x |-> 1, y |-> 1, z |-> WPLACE_ZOOM] \in Range(segTiles)

\* ---- one result per tile ----

C19_State ==
  LET counted == tally.downloaded + tally.skipped + tally.missing + tally.failed
  IN /\ Cardinality(Range(uniqueTiles)) = Len(uniqueTiles)
     /\ Cardinality(Range(tiles)) = Len(tiles)
     /\ i \in 0..Len(tiles)
     /\ counted \in {i, i + 1} /\ counted <= Len(tiles)
     /\ InCall => (cur = tiles[i + 1] /\ counted = i)
     /\ mpc = "ret" => counted = i
     /\ mpc = "next" => counted = i + 1
     /\ (mpc = "exited" /\ exitPath = "complete") =>
          (i = Len(tiles) /\ counted = Len(tiles))

C19_Step ==
  /\ (mpc = "loop" /\ mpc' = "call") =>
       /\ cur' = tiles[i + 1]
       /\ \A k \in 1..i : tiles[k] # cur'
  /\ (mpc' = "call" /\ mpc \notin {"loop", "call"}) =>
       (mpc \in {"wait_rl", "wait_retry"} /\ cur' = cur)
  /\ (i' # i /\ run' = run) => (i' = i + 1 /\ mpc = "next")
  /\ (tally' # tally /\ run' = run) => mpc = "ret"
  /\ (tiles' # tiles /\ run' = run) => mpc = "extract"

\* C19: the list of unique tiles and the worklist hold each (x, y) at most
\* once; the loop calls the Fetcher for the worklist's tiles one index after
\* the other, never for a tile of an earlier index, and counts one result per
\* call; a run that completes has a result for every tile of the worklist.
C19_OneResultPerTile == [](C19_State) /\ [][C19_Step]_vars

\* both tiles of the worklist were fetched, the second after the first, and
\* the run completed
C19_Witness ==
  /\ mpc = "exited" /\ exitPath = "complete"
  /\ Len(tiles) = 2 /\ i = 2 /\ cur = tiles[2] /\ tiles[1] # tiles[2]
  /\ tally.downloaded + tally.missing = 2

\* ---- the two retry budgets ----

\* C20 as stated: the two retry budgets are independent: a call fails on a
\* 429 response only after 3 rate-limit waits, however many transient retries
\* it made, and fails on a transient failure only after 2 transient retries,
\* however many rate-limit retries it made.
C20_IndependentBudgets ==
  LET made(ms) == Cardinality({k \in DOMAIN waits : waits[k] = ms})
  IN (mpc = "ret" /\ ~result.success) =>
       /\ result.reason = "HTTP 429" => made(DELAY_RATE_LIMIT_MS) >= RateLimitRetries
       /\ result.reason \in TransientMsgs => made(RETRY_WAIT_MS) >= TransientRetries

\* ---- the sample count ----

C22_Worklist ==
  (gpc = "extracted") =>
    LET lines(f) == IF f.type = "LineString" THEN {f.coordinates}
                    ELSE IF f.type = "MultiLineString" THEN Range(f.coordinates)
                    ELSE {}
        segs == UNION {{<<l[k], l[k + 1]>> : k \in 1..(Len(l) - 1)} :
                         l \in UNION {lines(features[n]) : n \in DOMAIN features}}
        sampled == UNION {{<<t.x, t.y>> : t \in Range(getTilesForLineSegment(sg[1], sg[2]))} :
                            sg \in segs}
    IN /\ Range(tiles) =
            {t \in sampled : TileKey(t) \notin Range(cache404) /\ tileFile[t] = "absent"}
       /\ Cardinality(Range(tiles)) = Len(tiles)

\* a feed of a MultiLineString and a Point: of the 13 tiles of the two lines
\* one is on disk and two are cached
C22_Witness ==
  /\ gpc = "extracted"
  /\ Len(features) = 2
  /\ features[1].type = "MultiLineString" /\ Len(features[1].coordinates[1]) = 2
  /\ features[2].type = "Point"
  /\ Len(uniqueTiles) = 13 /\ Len(tiles) = 10
  /\ tileFile[<<0, 0>>] = "complete" /\ Range(cache404) = {"0/1", "3/3"}

\* ---- the bound of one call ----

\* how far a call at this position is from its return, counted in steps of
\* the attempt in progress
C23_Rank ==
  CASE mpc = "call" -> 5
    [] mpc = "fetching" -> 4
    [] mpc = "saving" -> 3
    [] mpc = "caught" -> 2
    [] mpc \in {"wait_rl", "wait_retry"} -> 1
    [] OTHER -> 0

C23_Measure == IF InCall THEN (RateLimitRetries + 1 - retryCount) * 6 + C23_Rank ELSE 0

C23_State ==
  /\ reqs <= RateLimitRetries + 1
  /\ Len(waits) <= RateLimitRetries
  /\ InCall => (retryCount = Len(waits) /\ reqs \in {retryCount, retryCount + 1})
  /\ mpc = "ret" => Len(resps) = reqs

\* C23: whatever the responses and transport failures, one top-level call of
\* the Fetcher issues at most 4 requests and waits at most 3 times, because
\* every wait of either kind advances the one retry counter; every step of
\* the call brings it nearer to its return, so it ends with a result.
C23_BoundedCall ==
  [](C23_State) /\ [][InCall => (C23_Measure' < C23_Measure /\ C23_Measure' >= 0)]_vars

\* two transient retries and then a rate-limit retry: the fourth request
\* ended the call
C23_Witness ==
  /\ mpc = "ret" /\ reqs = 4
  /\ waits = <<RETRY_WAIT_MS, RETRY_WAIT_MS, DELAY_RATE_LIMIT_MS>>
  /\ ~result.success

\* ---- no cached 404 in a run ----

\* C24: whenever the driver's call of the Fetcher is at its cache test, the
\* key of the tile is not in the cache, so no result of a run is cached_404:
\* the cache holds only keys loaded at the start, which the filter removed
\* from the worklist, and keys of tiles the loop has already reached, and the
\* tiles of the worklist are distinct.
C24_NeverCachedNegative ==
  /\ mpc = "call" => TileKey(cur) \notin Range(cache404)
  /\ result.reason # "cached_404"
  /\ mpc \notin {"load", "extract"} =>
       /\ \A k \in DOMAIN tiles : TileKey(tiles[k]) \notin loaded
       /\ \A k \in DOMAIN tiles :
            TileKey(tiles[k]) \in Range(cache404) => (k <= i + 1 /\ tiles[k] \in got404)
       /\ Range(cache404) \subseteq loaded \cup KeysOf(got404)

\* the first tile of the worklist went into the cache with its 404 and the
\* Fetcher is called for the second
C24_Witness ==
  /\ mpc = "call" /\ i = 1 /\ retryCount = 0
  /\ tiles[1] \in got404 /\ TileKey(tiles[1]) \in Range(cache404)
  /\ cur = tiles[2]

\* ---- what a completed run leaves in the cache file ----

\* C25: when a run has completed its worklist with no signal delivered and no
\* cache write rejected, and some tile returned 404, the cache file holds
\* exactly the keys loaded at the start and the keys of the tiles that
\* returned 404 in the run, and the dirty flag is clear; and as long as no
\* tile has returned 404 in a run, the flag is clear and no write of the file
\* has been started in it.
C25_FileAfterRun ==
  /\ (mpc = "exited" /\ exitPath = "complete" /\ sigCount = 0 /\ writes = writesOk
        /\ got404 # {}) =>
       /\ cacheFile.st = "ok"
       /\ Range(cacheFile.data) = loaded \cup KeysOf(got404)
       /\ Len(cacheFile.data) = Cardinality(loaded \cup KeysOf(got404))
       /\ ~needsSave
       /\ writesOk >= 1
  /\ got404 = {} => (writes = 0 /\ ~needsSave)

\* a run that loaded a key and met a 404 has completed, its one write done
C25_Witness ==
  /\ mpc = "exited" /\ exitPath = "complete" /\ sigCount = 0
  /\ writes = 1 /\ writesOk = 1
  /\ loaded # {} /\ got404 # {}
  /\ Range(cacheFile.data) = loaded \cup KeysOf(got404)

====
